---- MODULE Spec2Model ----
(***************************************************************************)
(* Model of the spatial point store / k-d tree query engine                *)
(* (src/src/geometry/fast_postgis_like.py, class FastPostGISLike) and of   *)
(* the chunked nearest-node assignment loop (src/voronoi_optimized.py,     *)
(* create_optimized_voronoi_assignment).                                   *)
(*                                                                         *)
(* Numbers.  Coordinates are fixed-point: one unit is a tenth of a degree, *)
(* so the ingestion box -24.0..-23.0 x -47.0..-46.0 is -240..-230 x        *)
(* -470..-460.  A distance is kept exactly, as its square (Dist2).  The    *)
(* radius_km argument is counted in units of 11.132 km, so that            *)
(* radius_km / 111.32, in tenths of a degree, is the argument itself.      *)
(* np.pi is the rational PiNum / PiDen.                                    *)
(*                                                                         *)
(* Identities are 0-based as in Python; TLA+ sequences are 1-based, so     *)
(* identity i is points[i + 1].                                            *)
(***************************************************************************)
EXTENDS Integers, Sequences, FiniteSets, TLC

VARIABLES
    points,        \* FastPostGISLike.points: list of (lat, lon)
    points_array,  \* FastPostGISLike.points_array: None or np.array(points)
    kdtree,        \* FastPostGISLike.kdtree: None or a cKDTree
    op,            \* the last call: its name and arguments (for a load, also
                   \* whether the call before it was a load of the same input)
    ret,           \* what the last call returned
    raised,        \* the exception raised during the last call ("None" if none)
    escaped,       \* TRUE when that exception left the call uncaught
    G,             \* create_optimized_voronoi_assignment: the graph's nodes
    pc,            \* ... position in the function
    node_coords,   \* ... node_coords
    node_ids,      \* ... node_ids
    node_kdtree,   \* ... node_kdtree
    crime_points,  \* ... crime_points
    batch_size,    \* ... batch_size
    i,             \* ... loop variable i (start of the next chunk)
    assignments,   \* ... assignments: global_idx -> record
    layout,        \* how cKDTree lays points out: fixed, the same for every build
    tpc,           \* per calling thread: its position in the query it runs
    treq,          \* per calling thread: the request its caller passed
    frame,         \* the call frames: the locals of each running query
    out,           \* the counts the last call logged or printed (a query: none)
    crime_csv,     \* the file create_optimized_voronoi_assignment loads, as read
    todo,          \* chunks handed out to workers: the starts not yet taken
    work,          \* per worker: the chunk it is storing and how far it is
    csv_data,      \* CSVHandler.data: None or the DataFrame
    coordinates    \* CSVHandler.coordinates

ivars == <<points, points_array, kdtree>>
jvars == <<pc, G, node_coords, node_ids, node_kdtree, crime_points, batch_size, i, assignments,
           crime_csv>>
tvars == <<tpc, treq, frame>>
wvars == <<todo, work>>
hvars == <<csv_data, coordinates>>
vars  == <<points, points_array, kdtree, op, ret, raised, escaped, pc, G, node_coords, node_ids,
           node_kdtree, crime_points, batch_size, i, assignments, layout, tpc, treq, frame,
           out, crime_csv, todo, work, csv_data, coordinates>>

---------------------------------------------------------------------------
(* Bounds of the model *)
MaxRows  == 2     \* rows of an enumerated CSV table
MaxK     == 4     \* largest k of a nearest-neighbour request
MaxQuery == 2     \* query points of one nearest-neighbour request
MaxNodes == 2     \* nodes of an enumerated road graph
MaxBatch == 3     \* largest chunk size tried
MaxThreads == 2   \* threads querying one instance at the same time
MaxWorkers == 2   \* workers storing chunks at the same time

(* np.pi as a rational *)
PiNum == 22
PiDen == 7

(* The Sao Paulo box of the ingestion filter, in tenths of a degree *)
LAT_MIN == -240
LAT_MAX == -230
LON_MIN == -470
LON_MAX == -460

---------------------------------------------------------------------------
(* Values *)

Abs(x) == IF x < 0 THEN -x ELSE x
Min(a, b) == IF a < b THEN a ELSE b

\* The elements of a sequence
Range(s) == {s[n] : n \in 1..Len(s)}

\* Squared Euclidean distance between two (lat, lon) pairs
Dist2(p, q) == (p[1] - q[1]) * (p[1] - q[1]) + (p[2] - q[2]) * (p[2] - q[2])

\* All sequences over S of length at most n
SeqsUpTo(S, n) == UNION {[1..m -> S] : m \in 0..n}

\* A CSV cell: a number, a number written with a decimal comma, a missing
\* value, text that is no number, or "inf".
Num(v)   == [k |-> "float", v |-> v]
Comma(v) == [k |-> "comma", v |-> v]
NaN      == [k |-> "nan",   v |-> 0]
Text     == [k |-> "text",  v |-> 0]
Inf      == [k |-> "inf",   v |-> 0]

\* float('inf') among the fixed-point numbers: above every coordinate
Infinity == 10000

\* A CSV row: its LATITUDE and LONGITUDE cells
Row(lat, lon) == [LATITUDE |-> lat, LONGITUDE |-> lon]

\* Optional values
None      == [some |-> FALSE, val |-> <<>>]
Some(x)   == [some |-> TRUE,  val |-> x]

---------------------------------------------------------------------------
(* scipy.spatial.cKDTree, by its documented behaviour.  A tree keeps a copy *)
(* of the data and a permutation of the identities (cKDTree.indices, the    *)
(* order of the points in the leaves).  Which of two points at the same     *)
(* distance a query reports first is decided by the tree's layout, not by   *)
(* the identities.  The construction draws nothing at random: what it       *)
(* builds is a function of the data, the same at every build.  Which        *)
(* function is left open: `layout` is any order of the identities, chosen   *)
(* once, and the tree of n points holds 0..n-1 in that order.                *)

\* The permutations of the identities 0..n-1
Perms(n) == {f \in [1..n -> 0..(n - 1)] : \A a, b \in 1..n : f[a] = f[b] => a = b}

\* cKDTree(data) raises ValueError unless data has shape (n, m): np.array([])
\* of an empty list has shape (0,)
cKDTreeRaises(data) == data = <<>>

\* (mutant of cKDTree: each build lays the points out as it likes)
cKDTreeAnyLayout(data) == {[data |-> data, indices |-> p] : p \in Perms(Len(data))}

\* cKDTree.indices for n points: the identities 0..n-1 in the order of layout
Indices(n) == SelectSeq(layout, LAMBDA a : a < n)

\* The tree cKDTree(data) returns, as the set of its possible values
cKDTree(data) == {[data |-> data, indices |-> Indices(Len(data))]}

\* Position of identity a in the tree's layout
Rank(tree, a) == CHOOSE j \in 1..Len(tree.indices) : tree.indices[j] = a

\* a is reported before b by a query at x
Nearer(tree, x, a, b) ==
    LET da == Dist2(x, tree.data[a + 1])
        db == Dist2(x, tree.data[b + 1])
    IN  da < db \/ (da = db /\ Rank(tree, a) < Rank(tree, b))

\* The identity of the j-th nearest point to x (j = 1 is the nearest)
KthNearest(tree, x, j) ==
    LET ids == 0..(Len(tree.data) - 1)
    IN  CHOOSE a \in ids : Cardinality({b \in ids : Nearer(tree, x, b, a)}) = j - 1

\* cKDTree.query raises ValueError for a query array that is not (m, 2)
\* (np.array([]) of an empty list) and for k < 1
QueryRaises(x, k) == x = <<>> \/ k < 1

\* The index row cKDTree.query(x, k) gives for one query point: the k nearest
\* identities, nearest first; missing neighbours are reported as tree.n
QueryRow(tree, x, k) ==
    [j \in 1..k |-> IF j <= Len(tree.data) THEN KthNearest(tree, x, j) ELSE Len(tree.data)]

\* The distance row of cKDTree.query(x, k = 1) for one query point
QueryDist(tree, x) == Dist2(x, tree.data[KthNearest(tree, x, 1) + 1])

\* d <= r for d = sqrt(d2) and the rational r >= 0, without overflow
WithinRadius(d2, r) ==
    LET q   == r.num \div r.den
        rem == r.num % r.den
    IN  IF d2 <= q * q THEN TRUE
        ELSE IF d2 >= (q + 1) * (q + 1) THEN FALSE
        ELSE (d2 - q * q) * r.den <= 2 * q * rem + (rem * rem) \div r.den

\* (mutant of BallSet: the points of a shell around x, at least r / 2 away)
BallSetShell(tree, x, r) ==
    {a \in 0..(Len(tree.data) - 1) :
        /\ WithinRadius(Dist2(x, tree.data[a + 1]), r)
        /\ ~WithinRadius(4 * Dist2(x, tree.data[a + 1]), r) \/ r.num = 0}

\* The identities cKDTree.query_ball_point(x, r) returns, as a set
BallSet(tree, x, r) ==
    {a \in 0..(Len(tree.data) - 1) : WithinRadius(Dist2(x, tree.data[a + 1]), r)}

\* cKDTree.query_ball_point(x, r): the identities within r of x, in the
\* order of the tree's layout
query_ball_point(tree, x, r) ==
    LET S == BallSet(tree, x, r)
    IN  [j \in 1..Cardinality(S) |->
            CHOOSE a \in S : Cardinality({b \in S : Rank(tree, b) < Rank(tree, a)}) = j - 1]

---------------------------------------------------------------------------
(* FastPostGISLike.bulk_insert_points *)

\* df.dropna(subset=['LATITUDE', 'LONGITUDE']) keeps a row
NotNa(row) == row.LATITUDE.k # "nan" /\ row.LONGITUDE.k # "nan"
dropna(df) == SelectSeq(df, NotNa)

\* .astype(str).str.replace(',', '.').astype(float) raises ValueError on text
IsText(row) == row.LATITUDE.k = "text" \/ row.LONGITUDE.k = "text"
AstypeRaises(df) == \E j \in 1..Len(df) : IsText(df[j])

\* .astype(str).str.replace(',', '.').astype(float) of a cell that parses:
\* the decimal comma becomes a point and the number is read back
ToFloat(cell) == IF cell.k = "inf" THEN Infinity ELSE cell.v

\* (mutant of InBox: the bounds of the box are exclusive)
InBoxExclusive(row) ==
    /\ ToFloat(row.LATITUDE)  > LAT_MIN /\ ToFloat(row.LATITUDE)  < LAT_MAX
    /\ ToFloat(row.LONGITUDE) > LON_MIN /\ ToFloat(row.LONGITUDE) < LON_MAX

\* The Sao Paulo region filter
InBox(row) ==
    /\ ToFloat(row.LATITUDE)  >= LAT_MIN /\ ToFloat(row.LATITUDE)  <= LAT_MAX
    /\ ToFloat(row.LONGITUDE) >= LON_MIN /\ ToFloat(row.LONGITUDE) <= LON_MAX

\* list(zip(valid_data['LATITUDE'], valid_data['LONGITUDE']))
ZipCoords(df) == [j \in 1..Len(df) |-> <<ToFloat(df[j].LATITUDE), ToFloat(df[j].LONGITUDE)>>]

\* (mutant of Accepted: the box filter is left out, so a record with an
\* infinite coordinate is kept)
AcceptedUnfiltered(df) == ZipCoords(dropna(df))

\* The coordinates the load keeps, in input order
Accepted(df) == ZipCoords(SelectSeq(dropna(df), InBox))

\* What a load tells about its counts: CSVHandler.load_csv logs the number of
\* records read ("CSV cargado exitosamente: n registros"), and the load prints
\* the number of points kept ("n puntos insertados") once the index is built
Registros(n)  == [what |-> "registros", n |-> n]
\* (mutant of Insertados: the count printed is the last identity,
\* len(self.points) - 1)
InsertadosLastIdentity(n) == [what |-> "puntos insertados", n |-> n - 1]
Insertados(n) == [what |-> "puntos insertados", n |-> n]

\* (mutant of bulk_insert_points: self.points.extend(...) instead of the
\* assignment, so the points of earlier loads stay)
bulk_insert_points_extending(csv) ==
    /\ op' = [name |-> "bulk_insert_points", csv |-> csv,
              again |-> (op.name = "bulk_insert_points" /\ op.csv = csv)]
    /\ escaped' = FALSE
    /\ IF ~csv.some
       THEN /\ ret' = FALSE /\ raised' = "None"
            /\ out' = {}
            /\ UNCHANGED ivars
       ELSE IF AstypeRaises(dropna(csv.val))
       THEN /\ ret' = FALSE /\ raised' = "ValueError"
            /\ out' = {Registros(Len(csv.val))}
            /\ UNCHANGED ivars
       ELSE /\ points' = points \o Accepted(csv.val)
            /\ points_array' = Some(points')
            /\ IF cKDTreeRaises(points')
               THEN /\ kdtree' = kdtree
                    /\ ret' = FALSE /\ raised' = "ValueError"
                    /\ out' = {Registros(Len(csv.val))}
               ELSE /\ \E t \in cKDTree(points') : kdtree' = Some(t)
                    /\ ret' = TRUE /\ raised' = "None"
                    /\ out' = {Registros(Len(csv.val)), Insertados(Len(points'))}

\* bulk_insert_points(csv_path): csv is None for an unreadable file
bulk_insert_points(csv) ==
    /\ op' = [name |-> "bulk_insert_points", csv |-> csv,
              again |-> (op.name = "bulk_insert_points" /\ op.csv = csv)]
    /\ escaped' = FALSE
    /\ IF ~csv.some
       THEN /\ ret' = FALSE /\ raised' = "None"
            /\ out' = {}
            /\ UNCHANGED ivars
       ELSE IF AstypeRaises(dropna(csv.val))
       THEN /\ ret' = FALSE /\ raised' = "ValueError"
            /\ out' = {Registros(Len(csv.val))}
            /\ UNCHANGED ivars
       ELSE /\ points' = Accepted(csv.val)
            /\ points_array' = Some(points')
            /\ IF cKDTreeRaises(points')
               THEN /\ kdtree' = kdtree
                    /\ ret' = FALSE /\ raised' = "ValueError"
                    /\ out' = {Registros(Len(csv.val))}
               ELSE /\ \E t \in cKDTree(points') : kdtree' = Some(t)
                    /\ ret' = TRUE /\ raised' = "None"
                    /\ out' = {Registros(Len(csv.val)), Insertados(Len(points'))}

---------------------------------------------------------------------------
(* FastPostGISLike.fast_spatial_query *)

\* lat_radius = radius_km / 111.32
lat_radius(radius_km) == [num |-> radius_km, den |-> 1]

\* lon_radius = radius_km / (111.32 * abs(lat_center) * np.pi / 180)
lon_radius(lat_center, radius_km) ==
    [num |-> radius_km * 1800 * PiDen, den |-> Abs(lat_center) * PiNum]

\* Python's max(a, b) on two rationals
Max(a, b) == IF b.num * a.den > a.num * b.den THEN b ELSE a

\* The division by abs(lat_center) raises ZeroDivisionError at latitude 0
SpatialRaises(center) == Abs(center[1]) = 0

\* The radius handed to query_ball_point
SearchRadius(center, radius_km) ==
    Max(lat_radius(radius_km), lon_radius(center[1], radius_km))

\* (mutant of fast_spatial_query: the error handler drops the index)
fast_spatial_query_dropping(center, radius_km) ==
    /\ op' = [name |-> "fast_spatial_query", center |-> center, radius_km |-> radius_km,
              widened |-> (/\ op.name = "fast_spatial_query" /\ op.center = center
                           /\ op.radius_km < radius_km)]
    /\ escaped' = FALSE
    /\ out' = {}
    /\ UNCHANGED <<points, points_array>>
    /\ IF kdtree = None
       THEN ret' = <<>> /\ raised' = "None" /\ kdtree' = kdtree
       ELSE IF SpatialRaises(center)
       THEN ret' = <<>> /\ raised' = "ZeroDivisionError" /\ kdtree' = None
       ELSE /\ ret' = query_ball_point(kdtree.val, center, SearchRadius(center, radius_km))
            /\ raised' = "None" /\ kdtree' = kdtree

fast_spatial_query(center, radius_km) ==
    /\ op' = [name |-> "fast_spatial_query", center |-> center, radius_km |-> radius_km,
              widened |-> (/\ op.name = "fast_spatial_query" /\ op.center = center
                           /\ op.radius_km < radius_km)]
    /\ escaped' = FALSE
    /\ out' = {}
    /\ UNCHANGED ivars
    /\ IF kdtree = None
       THEN ret' = <<>> /\ raised' = "None"
       ELSE IF SpatialRaises(center)
       THEN ret' = <<>> /\ raised' = "ZeroDivisionError"
       ELSE /\ ret' = query_ball_point(kdtree.val, center, SearchRadius(center, radius_km))
            /\ raised' = "None"

---------------------------------------------------------------------------
(* FastPostGISLike.fast_nearest_points *)

\* (mutant of NeighbourLists: each list is returned farthest first)
NeighbourListsReversed(tree, query_points, k) ==
    [m \in 1..Len(query_points) |->
        LET row == QueryRow(tree, query_points[m], k)
        IN  [n \in 1..Len(row) |-> row[Len(row) + 1 - n]]]

\* (mutant of NeighbourLists: every list is the one of the first query point)
NeighbourListsOfFirst(tree, query_points, k) ==
    [m \in 1..Len(query_points) |-> QueryRow(tree, query_points[1], k)]

\* The value built from the index array of kdtree.query(query_array, k=k):
\* [[idx] for idx in indices] for k = 1, [list(l) for l in indices] otherwise
NeighbourLists(tree, query_points, k) ==
    IF k = 1
    THEN [m \in 1..Len(query_points) |-> <<QueryRow(tree, query_points[m], 1)[1]>>]
    ELSE [m \in 1..Len(query_points) |-> QueryRow(tree, query_points[m], k)]

\* (mutant of fast_nearest_points: no try/except around the query)
fast_nearest_points_unguarded(query_points, k) ==
    /\ op' = [name |-> "fast_nearest_points", query_points |-> query_points, k |-> k]
    /\ out' = {}
    /\ UNCHANGED ivars
    /\ IF kdtree = None
       THEN ret' = <<>> /\ raised' = "None" /\ escaped' = FALSE
       ELSE IF QueryRaises(query_points, k)
       THEN ret' = <<>> /\ raised' = "ValueError" /\ escaped' = TRUE
       ELSE /\ ret' = NeighbourLists(kdtree.val, query_points, k)
            /\ raised' = "None" /\ escaped' = FALSE

fast_nearest_points(query_points, k) ==
    /\ op' = [name |-> "fast_nearest_points", query_points |-> query_points, k |-> k]
    /\ out' = {}
    /\ escaped' = FALSE
    /\ UNCHANGED ivars
    /\ IF kdtree = None
       THEN ret' = <<>> /\ raised' = "None"
       ELSE IF QueryRaises(query_points, k)
       THEN ret' = <<>> /\ raised' = "ValueError"
       ELSE /\ ret' = NeighbourLists(kdtree.val, query_points, k)
            /\ raised' = "None"

---------------------------------------------------------------------------
(* fast_spatial_query and fast_nearest_points called from several threads  *)
(* on one instance.  A call runs in two steps, because it reads            *)
(* self.kdtree twice: at the `is None` test on entry and again at the      *)
(* lookup; what lies between works on the call's own locals only.  The     *)
(* class takes no lock.                                                    *)

Threads == 1..MaxThreads

\* The arguments of a call
SpatialRequest(center, radius_km) ==
    [name |-> "fast_spatial_query", center |-> center, radius_km |-> radius_km,
     query_points |-> <<>>, k |-> 0]
NearestRequest(query_points, k) ==
    [name |-> "fast_nearest_points", center |-> <<0, 0>>, radius_km |-> 0,
     query_points |-> query_points, k |-> k]
NoRequest ==
    [name |-> "none", center |-> <<0, 0>>, radius_km |-> 0, query_points |-> <<>>, k |-> 0]

\* The locals of a call: its arguments, max(lat_radius, lon_radius),
\* query_array, the value it is about to return, the exception it caught
EmptyFrame ==
    [req |-> NoRequest, radius |-> [num |-> 0, den |-> 1], query_array |-> <<>>,
     result |-> <<>>, raised |-> "None"]

\* (mutant of Local: the locals are kept in one place for all the callers)
LocalShared(t) == 1
\* The frame that holds the locals of thread t's call: its own
Local(t) == t

\* Thread t calls a query method: a new frame with the arguments
ThreadCall(t, req) ==
    /\ tpc[t] = "idle"
    /\ tpc' = [tpc EXCEPT ![t] = "entered"]
    /\ treq' = [treq EXCEPT ![t] = req]
    /\ frame' = [frame EXCEPT ![Local(t)] = [EmptyFrame EXCEPT !.req = req]]
    /\ UNCHANGED <<ivars, op, ret, raised, escaped, jvars, layout, out, wvars, hvars>>

\* From `if self.kdtree is None` up to the lookup: the radii of
\* fast_spatial_query (lines 100-107), query_array of fast_nearest_points
\* (lines 128-133)
ThreadEnter(t) ==
    /\ tpc[t] = "entered"
    /\ LET f == frame[Local(t)]
       IN  IF kdtree = None
           THEN /\ frame' = [frame EXCEPT ![Local(t)].result = <<>>]
                /\ tpc' = [tpc EXCEPT ![t] = "done"]
           ELSE IF f.req.name = "fast_spatial_query"
           THEN IF SpatialRaises(f.req.center)
                THEN /\ frame' = [frame EXCEPT ![Local(t)].result = <<>>,
                                               ![Local(t)].raised = "ZeroDivisionError"]
                     /\ tpc' = [tpc EXCEPT ![t] = "done"]
                ELSE /\ frame' = [frame EXCEPT ![Local(t)].radius =
                                                  SearchRadius(f.req.center, f.req.radius_km)]
                     /\ tpc' = [tpc EXCEPT ![t] = "ready"]
           ELSE /\ frame' = [frame EXCEPT ![Local(t)].query_array = f.req.query_points]
                /\ tpc' = [tpc EXCEPT ![t] = "ready"]
    /\ UNCHANGED <<ivars, op, ret, raised, escaped, jvars, layout, treq, out, wvars, hvars>>

\* The lookup on self.kdtree and the value to return (lines 110-112, 134-139)
ThreadQuery(t) ==
    /\ tpc[t] = "ready"
    /\ LET f == frame[Local(t)]
       IN  IF f.req.name = "fast_spatial_query"
           THEN frame' = [frame EXCEPT ![Local(t)].result =
                                          query_ball_point(kdtree.val, f.req.center, f.radius)]
           ELSE IF QueryRaises(f.query_array, f.req.k)
           THEN frame' = [frame EXCEPT ![Local(t)].result = <<>>,
                                       ![Local(t)].raised = "ValueError"]
           ELSE frame' = [frame EXCEPT ![Local(t)].result =
                                          NeighbourLists(kdtree.val, f.query_array, f.req.k)]
    /\ tpc' = [tpc EXCEPT ![t] = "done"]
    /\ UNCHANGED <<ivars, op, ret, raised, escaped, jvars, layout, treq, out, wvars, hvars>>

\* The call returns and its frame is gone
ThreadReturn(t) ==
    /\ tpc[t] = "done"
    /\ tpc' = [tpc EXCEPT ![t] = "idle"]
    /\ treq' = [treq EXCEPT ![t] = NoRequest]
    /\ frame' = [frame EXCEPT ![Local(t)] = EmptyFrame]
    /\ UNCHANGED <<ivars, op, ret, raised, escaped, jvars, layout, out, wvars, hvars>>

---------------------------------------------------------------------------
(* create_optimized_voronoi_assignment (src/voronoi_optimized.py) *)

\* A Python dict: its items in insertion order, each key once
DictKeys(d) == {d[n].key : n \in 1..Len(d)}
DictGet(d, key) == d[CHOOSE n \in 1..Len(d) : d[n].key = key].val
\* (mutant of DictSet: a new key goes to the front)
DictSetFront(d, key, val) ==
    IF key \in DictKeys(d)
    THEN [n \in 1..Len(d) |-> IF d[n].key = key THEN [key |-> key, val |-> val] ELSE d[n]]
    ELSE <<[key |-> key, val |-> val]>> \o d
DictSet(d, key, val) ==
    IF key \in DictKeys(d)
    THEN [n \in 1..Len(d) |-> IF d[n].key = key THEN [key |-> key, val |-> val] ELSE d[n]]
    ELSE Append(d, [key |-> key, val |-> val])

\* A graph node: its OSM id and, when present, its 'y' (lat) and 'x' (lon)
Node(id, y, x) == [id |-> id, has |-> TRUE,  y |-> y, x |-> x]
BareNode(id)   == [id |-> id, has |-> FALSE, y |-> 0, x |-> 0]

\* The nodes of G that carry both 'y' and 'x'
HasCoords(node) == node.has
\* node_coords.append([lat, lon]) and node_ids.append(node_id) over G.nodes
NodeCoords(graph) == LET ns == SelectSeq(graph, HasCoords) IN [n \in 1..Len(ns) |-> <<ns[n].y, ns[n].x>>]
\* (mutant of NodeIds: the id is appended outside the 'y'/'x' test)
NodeIdsUnfiltered(graph) == [n \in 1..Len(graph) |-> graph[n].id]
NodeIds(graph)    == LET ns == SelectSeq(graph, HasCoords) IN [n \in 1..Len(ns) |-> ns[n].id]

\* (mutant of BatchEnd: min(i + batch_size - 1, len(crime_points)), one short)
BatchEndShort(start, size, n) == Min(start + size - 1, n)

\* batch_end = min(i + batch_size, len(crime_points))
BatchEnd(start, size, n) == Min(start + size, n)

\* (mutant of Slice: crime_points[0:batch_end - i])
SliceFromStart(s, from, to) == [n \in 1..(to - from) |-> s[n]]
\* crime_points[i:batch_end]
Slice(s, from, to) == [n \in 1..(to - from) |-> s[from + n]]

\* (mutant of GlobalIdx: global_idx = j)
GlobalIdxLocal(start, j) == j
\* global_idx = i + j
GlobalIdx(start, j) == start + j

\* The record stored for the j-th point of a chunk (j from 0)
AssignmentRecord(tree, ids, batch_crime, j) ==
    [crime_point     |-> batch_crime[j + 1],
     nearest_node_id |-> ids[QueryRow(tree, batch_crime[j + 1], 1)[1] + 1],
     distance        |-> QueryDist(tree, batch_crime[j + 1])]

\* (mutant of StoreChunk: the chunk starts from an empty dict, dropping the
\* records of the chunks before it)
RECURSIVE StoreChunkFresh(_, _, _, _, _, _)
StoreChunkFresh(d, tree, ids, batch_crime, start, j) ==
    IF j >= Len(batch_crime) THEN d
    ELSE StoreChunkFresh(DictSet(IF j = 0 THEN <<>> ELSE d, GlobalIdx(start, j),
                                 AssignmentRecord(tree, ids, batch_crime, j)),
                         tree, ids, batch_crime, start, j + 1)

\* The inner for loop over enumerate(zip(batch_crime, nearest_indices,
\* distances)), from position j on
RECURSIVE StoreChunk(_, _, _, _, _, _)
StoreChunk(d, tree, ids, batch_crime, start, j) ==
    IF j >= Len(batch_crime) THEN d
    ELSE StoreChunk(DictSet(d, GlobalIdx(start, j), AssignmentRecord(tree, ids, batch_crime, j)),
                    tree, ids, batch_crime, start, j + 1)

\* analyzer = FastPostGISLike(); analyzer.bulk_insert_points(csv); return on False
JobLoad(csv) ==
    /\ pc = "load"
    /\ bulk_insert_points(csv)
    /\ pc' = IF ret' THEN "graph" ELSE "returned"
    /\ crime_csv' = csv
    /\ UNCHANGED <<G, node_coords, node_ids, node_kdtree, crime_points, batch_size, i, assignments>>

\* G = ox.graph_from_place(...) or return on an exception; then the node
\* coordinates are extracted.  graph is None when graph_from_place raises.
JobGraph(graph) ==
    /\ pc = "graph"
    /\ op' = [name |-> "graph_from_place"]
    /\ escaped' = FALSE
    /\ IF ~graph.some
       THEN /\ pc' = "returned" /\ raised' = "Exception" /\ ret' = FALSE
            /\ UNCHANGED <<G, node_coords, node_ids>>
       ELSE /\ pc' = "kdtree" /\ raised' = "None" /\ ret' = TRUE
            /\ G' = graph.val
            /\ node_coords' = NodeCoords(graph.val)
            /\ node_ids' = NodeIds(graph.val)
    /\ UNCHANGED <<ivars, node_kdtree, crime_points, batch_size, i, assignments, crime_csv>>

\* node_kdtree = cKDTree(node_coords), outside any try: a ValueError leaves
\* the function, and its caller main() has no handler.  Then the loop is set up.
JobTree(size) ==
    /\ pc = "kdtree"
    /\ op' = [name |-> "cKDTree"]
    /\ IF cKDTreeRaises(node_coords)
       THEN /\ pc' = "crashed" /\ raised' = "ValueError" /\ escaped' = TRUE /\ ret' = FALSE
            /\ UNCHANGED <<node_kdtree, crime_points, batch_size, i, assignments>>
       ELSE /\ pc' = "loop" /\ raised' = "None" /\ escaped' = FALSE /\ ret' = TRUE
            /\ \E t \in cKDTree(node_coords) : node_kdtree' = Some(t)
            /\ crime_points' = points
            /\ batch_size' = size
            /\ assignments' = <<>>
            /\ i' = 0
    /\ UNCHANGED <<ivars, G, node_coords, node_ids, crime_csv>>

\* One iteration of for i in range(0, len(crime_points), batch_size)
JobChunk ==
    /\ pc = "loop"
    /\ i < Len(crime_points)
    /\ LET batch_end   == BatchEnd(i, batch_size, Len(crime_points))
           batch_crime == Slice(crime_points, i, batch_end)
       IN  /\ assignments' = StoreChunk(assignments, node_kdtree.val, node_ids, batch_crime, i, 0)
           /\ op' = [name |-> "chunk", i |-> i, batch_end |-> batch_end]
    /\ i' = i + batch_size
    /\ raised' = "None" /\ escaped' = FALSE /\ ret' = TRUE
    /\ UNCHANGED <<ivars, pc, G, node_coords, node_ids, node_kdtree, crime_points, batch_size, crime_csv>>

\* create_kdtree_fallback (src/voronoi_real.py): the same assignment made by
\* one query over all the subjects, assignments[i] for i, ... in enumerate(...)
create_kdtree_fallback(tree, ids, subjects) ==
    [g \in 1..Len(subjects) |->
        [key |-> g - 1,
         val |-> [crime_point     |-> subjects[g],
                  nearest_node_id |-> ids[QueryRow(tree, subjects[g], 1)[1] + 1],
                  distance        |-> QueryDist(tree, subjects[g])]]]

\* The range is exhausted: the loop ends with the assignments as they are
JobEnd ==
    /\ pc = "loop"
    /\ i >= Len(crime_points)
    /\ pc' = "done"
    /\ op' = [name |-> "end"]
    /\ UNCHANGED <<ivars, ret, raised, escaped, G, node_coords, node_ids, node_kdtree, crime_points,
                   batch_size, i, assignments, crime_csv>>

---------------------------------------------------------------------------
(* The chunks of the assignment loop handed to workers.  The body of the   *)
(* loop is the one of create_optimized_voronoi_assignment; which chunk is  *)
(* done next, and by whom, is free.  A worker takes a chunk start i of      *)
(* range(0, len(crime_points), batch_size) and stores the records of        *)
(* crime_points[i:batch_end] one at a time.                                 *)

Workers == 1..MaxWorkers

NoWork == [busy |-> FALSE, i |-> 0, j |-> 0]

\* (mutant of ChunkStarts: range(0, n - size, size), which leaves out the
\* last chunk)
ChunkStartsShort(n, size) == {s \in 0..(n - size - 1) : s % size = 0}

\* range(0, n, size)
ChunkStarts(n, size) == {s \in 0..(n - 1) : s % size = 0}

\* The set-up of the loop, and the chunk starts laid out for the workers
HandOut(size) ==
    /\ JobTree(size)
    /\ todo' = IF cKDTreeRaises(node_coords) THEN todo ELSE ChunkStarts(Len(points), size)
    /\ UNCHANGED <<work, layout, tvars, out, hvars>>

\* Worker w takes any chunk not taken yet
WorkerTake(w) ==
    /\ pc = "loop"
    /\ ~work[w].busy
    /\ \E s \in todo :
          /\ work' = [work EXCEPT ![w] = [busy |-> TRUE, i |-> s, j |-> 0]]
          /\ todo' = todo \ {s}
    /\ UNCHANGED <<ivars, op, ret, raised, escaped, jvars, layout, tvars, out, hvars>>

\* Worker w stores the next record of its chunk (lines 92-98), and is free
\* again after the last one
WorkerStore(w) ==
    /\ pc = "loop"
    /\ work[w].busy
    /\ LET start       == work[w].i
           j           == work[w].j
           batch_end   == BatchEnd(start, batch_size, Len(crime_points))
           batch_crime == Slice(crime_points, start, batch_end)
       IN  /\ assignments' = DictSet(assignments, GlobalIdx(start, j),
                                     AssignmentRecord(node_kdtree.val, node_ids, batch_crime, j))
           /\ work' = [work EXCEPT ![w] = IF j + 1 >= Len(batch_crime) THEN NoWork
                                          ELSE [busy |-> TRUE, i |-> start, j |-> j + 1]]
    /\ UNCHANGED <<ivars, op, ret, raised, escaped, pc, G, node_coords, node_ids, node_kdtree,
                   crime_points, batch_size, i, crime_csv, todo, layout, tvars, out, hvars>>

\* Every chunk is taken and stored
WorkersEnd ==
    /\ pc = "loop"
    /\ todo = {}
    /\ \A w \in Workers : ~work[w].busy
    /\ pc' = "done"
    /\ UNCHANGED <<ivars, op, ret, raised, escaped, G, node_coords, node_ids, node_kdtree,
                   crime_points, batch_size, i, assignments, crime_csv, wvars, layout, tvars,
                   out, hvars>>

---------------------------------------------------------------------------
(* CrimeDataProcessor.process and CSVHandler (src/src/data/csv_handler.py) *)

\* data.dropna(subset=[self.lat_col, self.lon_col])
ProcessDropna(df) ==
    SelectSeq(df, LAMBDA row : row.LATITUDE.k # "nan" /\ row.LONGITUDE.k # "nan")

\* .astype(str).str.replace(',', '.').astype(float) of a column raises
\* ValueError when a cell is no number
ProcessRaises(df) ==
    \E n \in 1..Len(df) : df[n].LATITUDE.k = "text" \/ df[n].LONGITUDE.k = "text"

\* The cell as a float, the decimal comma read as a point
ProcessFloat(cell) == IF cell.k = "inf" THEN Infinity ELSE cell.v

\* (mutant of ProcessInBox: the longitude bounds are left out)
ProcessInBoxLatOnly(row) ==
    ProcessFloat(row.LATITUDE) >= -240 /\ ProcessFloat(row.LATITUDE) <= -230

\* The filter on -24.0 <= lat <= -23.0 and -47.0 <= lon <= -46.0
ProcessInBox(row) ==
    /\ ProcessFloat(row.LATITUDE) >= -240 /\ ProcessFloat(row.LATITUDE) <= -230
    /\ ProcessFloat(row.LONGITUDE) >= -470 /\ ProcessFloat(row.LONGITUDE) <= -460

\* CrimeDataProcessor.process(data): the coordinates kept, [] on an exception
process(df) ==
    IF ProcessRaises(ProcessDropna(df)) THEN <<>>
    ELSE LET valid_data == SelectSeq(ProcessDropna(df), ProcessInBox)
         IN  [n \in 1..Len(valid_data) |->
                 <<ProcessFloat(valid_data[n].LATITUDE), ProcessFloat(valid_data[n].LONGITUDE)>>]

\* CSVHandler(processor).load_csv(path): a new handler, whose data is the
\* table read, or None when the file cannot be read
load_csv(csv) ==
    /\ csv_data' = csv
    /\ coordinates' = <<>>

\* CSVHandler.process_data, called on the handler the last load built
process_data ==
    /\ op' = [name |-> "process_data"]
    /\ coordinates' = IF csv_data = None THEN coordinates ELSE process(csv_data.val)
    /\ ret' = IF csv_data = None THEN <<>> ELSE coordinates'
    /\ raised' = IF csv_data # None /\ ProcessRaises(ProcessDropna(csv_data.val))
                 THEN "ValueError" ELSE "None"
    /\ escaped' = FALSE
    /\ UNCHANGED <<ivars, jvars, layout, tvars, out, wvars, csv_data>>

---------------------------------------------------------------------------
(* Inputs *)

\* Rows of the enumerated tables: a point inside the box, a row with a
\* missing latitude and a row whose latitude is text
RowPool == { Row(Num(-240), Num(-466)), Row(NaN, Num(-470)), Row(Text, Num(-470)) }

\* Two points on the southern edge of the box, 0.4 and 0.6 degrees east of
\* its corner
TwoPoints == << Row(Num(-240), Num(-466)), Row(Num(-240), Num(-464)) >>

\* The corners of the box: the unit square of points (0,0),(1,0),(0,1),(1,1)
\* moved into the box
BoxCorners ==
    << Row(Num(-240), Num(-470)), Row(Num(-230), Num(-470)),
       Row(Num(-240), Num(-460)), Row(Num(-230), Num(-460)) >>

\* The points (0,0),(1,0),(0,1),(1,1) in degrees
UnitSquare ==
    << Row(Num(0), Num(0)), Row(Num(10), Num(0)), Row(Num(0), Num(10)), Row(Num(10), Num(10)) >>

\* Accepted rows between rejected ones: decimal commas, a row just outside
\* the box, a missing longitude
Mixed ==
    << Row(Comma(-235), Comma(-465)), Row(Num(-241), Num(-470)),
       Row(Num(-240), NaN), Row(Num(-230), Num(-460)) >>

\* Two records that are kept around two with a coordinate that is not
\* finite: a missing latitude and an infinite longitude
NonFinite ==
    << Row(Num(-240), Num(-470)), Row(NaN, Num(-465)),
       Row(Num(-235), Inf), Row(Num(-230), Num(-460)) >>

Tables == SeqsUpTo(RowPool, MaxRows) \cup {TwoPoints, BoxCorners, UnitSquare, Mixed, NonFinite}

CsvInputs == {None} \cup {Some(t) : t \in Tables}

Centers == { <<0, 0>>, <<0, -470>>, <<-240, -470>>, <<-235, -465>>, <<-600, -470>> }
Radii == {0, 2, 5, 360}

QueryPoints == { <<-235, -465>>, <<-240, -470>> }
\* Requests of up to MaxQuery different query points
QueryLists ==
    {q \in SeqsUpTo(QueryPoints, MaxQuery) : \A a, b \in 1..Len(q) : q[a] = q[b] => a = b}
Ks == {-1, 0, 1, 2, MaxK}

NodePool ==
    { Node(101, -240, -470), Node(102, -240, -460), BareNode(103), Node(104, -240, -470) }

\* G.nodes lists each node once
Graphs ==
    {g \in SeqsUpTo(NodePool, MaxNodes) : \A a, b \in 1..Len(g) : g[a] = g[b] => a = b}

GraphInputs == {None} \cup {Some(g) : g \in Graphs}

\* The calls the threads make: two range queries, one of them at latitude 0,
\* and two nearest-neighbour requests, one of them with k = 0
ThreadRequests ==
    { SpatialRequest(<<-235, -465>>, 5), SpatialRequest(<<0, -470>>, 360),
      NearestRequest(<< <<-235, -465>> >>, 2), NearestRequest(<< <<-240, -470>> >>, 0) }

\* The tables loaded before the threads query
ThreadTables == {Some(TwoPoints), Some(BoxCorners)}

\* The graphs the workers' runs use: two nodes apart, and two nodes at the
\* same place
WorkerGraphs ==
    { Some(<<Node(101, -240, -470), Node(102, -240, -460)>>),
      Some(<<Node(101, -240, -470), Node(104, -240, -470)>>) }

\* The largest number of points a tree is built from, and the orders cKDTree
\* may keep that many identities in
MaxPoints ==
    LET sizes == {Len(BoxCorners), MaxRows, MaxNodes}
    IN  CHOOSE n \in sizes : \A m \in sizes : m <= n
Layouts == Perms(MaxPoints)

---------------------------------------------------------------------------
(* Specifications *)

\* FastPostGISLike.__init__, and the assignment script not yet started
Init ==
    /\ points = <<>>
    /\ points_array = None
    /\ kdtree = None
    /\ op = [name |-> "__init__"]
    /\ ret = TRUE
    /\ raised = "None"
    /\ escaped = FALSE
    /\ pc = "load"
    /\ G = <<>>
    /\ node_coords = <<>>
    /\ node_ids = <<>>
    /\ node_kdtree = None
    /\ crime_points = <<>>
    /\ batch_size = 1
    /\ i = 0
    /\ assignments = <<>>
    /\ layout \in Layouts
    /\ tpc = [t \in Threads |-> "idle"]
    /\ treq = [t \in Threads |-> NoRequest]
    /\ frame = [t \in Threads |-> EmptyFrame]
    /\ out = {}
    /\ crime_csv = None
    /\ todo = {}
    /\ work = [w \in Workers |-> NoWork]
    /\ csv_data = None
    /\ coordinates = <<>>

BulkInsert ==
    \E csv \in CsvInputs : bulk_insert_points(csv) /\ UNCHANGED <<jvars, layout, tvars, wvars, hvars>>
SpatialQuery ==
    \E center \in Centers, radius_km \in Radii :
        fast_spatial_query(center, radius_km) /\ UNCHANGED <<jvars, layout, tvars, wvars, hvars>>
NearestPoints ==
    \E query_points \in QueryLists, k \in Ks :
        fast_nearest_points(query_points, k) /\ UNCHANGED <<jvars, layout, tvars, wvars, hvars>>

\* Any sequence of calls on one FastPostGISLike
Next == BulkInsert \/ SpatialQuery \/ NearestPoints
Spec == Init /\ [][Next]_vars

Load  == \E csv \in CsvInputs : JobLoad(csv) /\ UNCHANGED <<layout, tvars, wvars, hvars>>
Graph == \E graph \in GraphInputs : JobGraph(graph) /\ UNCHANGED <<layout, tvars, out, wvars, hvars>>
Tree  == \E size \in 1..MaxBatch : JobTree(size) /\ UNCHANGED <<layout, tvars, out, wvars, hvars>>
Chunk == JobChunk /\ UNCHANGED <<layout, tvars, out, wvars, hvars>>
End   == JobEnd /\ UNCHANGED <<layout, tvars, out, wvars, hvars>>

\* One run of create_optimized_voronoi_assignment
NextBatch == Load \/ Graph \/ Tree \/ Chunk \/ End
SpecBatch == Init /\ [][NextBatch]_vars

\* The instance is loaded while no query runs
LoadWhileIdle ==
    /\ \A t \in Threads : tpc[t] = "idle"
    /\ \E csv \in ThreadTables : bulk_insert_points(csv)
    /\ UNCHANGED <<jvars, layout, tvars, wvars, hvars>>
Call   == \E t \in Threads, req \in ThreadRequests : ThreadCall(t, req)
Enter  == \E t \in Threads : ThreadEnter(t)
Query  == \E t \in Threads : ThreadQuery(t)
Return == \E t \in Threads : ThreadReturn(t)

\* Queries from several threads on one instance, loads only between them
NextThreads == LoadWhileIdle \/ Call \/ Enter \/ Query \/ Return
SpecThreads == Init /\ [][NextThreads]_vars

SmallLoad  == \E csv \in ThreadTables : JobLoad(csv) /\ UNCHANGED <<layout, tvars, wvars, hvars>>
SmallGraph ==
    \E graph \in WorkerGraphs : JobGraph(graph) /\ UNCHANGED <<layout, tvars, out, wvars, hvars>>
WorkersTree  == \E size \in 1..MaxBatch : HandOut(size)
Take         == \E w \in Workers : WorkerTake(w)
Store        == \E w \in Workers : WorkerStore(w)

\* One run of the assignment with the chunks done by workers in any order
NextWorkers == SmallLoad \/ SmallGraph \/ WorkersTree \/ Take \/ Store \/ WorkersEnd
SpecWorkers == Init /\ [][NextWorkers]_vars

\* Loads that keep the handler they built, and that handler processing its
\* table
HandlerLoad ==
    \E csv \in CsvInputs :
        bulk_insert_points(csv) /\ load_csv(csv) /\ UNCHANGED <<jvars, layout, tvars, wvars>>
ProcessData == op.name = "bulk_insert_points" /\ process_data
NextFilter == HandlerLoad \/ ProcessData
SpecFilter == Init /\ [][NextFilter]_vars

---------------------------------------------------------------------------
(* The run of create_optimized_voronoi_assignment over the small inputs,    *)
(* not stopped from outside: the function is one thread of control, so a   *)
(* step that can be taken is taken.                                        *)
LoopTables == {Some(SubSeq(BoxCorners, 1, n)) : n \in 1..Len(BoxCorners)}
LoopLoad == \E csv \in LoopTables : JobLoad(csv) /\ UNCHANGED <<layout, tvars, wvars, hvars>>
NextLoop == LoopLoad \/ SmallGraph \/ Tree \/ Chunk \/ End
SpecLoopFair == Init /\ [][NextLoop]_vars /\ WF_vars(NextLoop)

---------------------------------------------------------------------------
(* Properties *)

IsQuery == op.name \in {"fast_spatial_query", "fast_nearest_points"}
IsNearest == op.name = "fast_nearest_points" /\ kdtree # None
\* Number of points in the index
IndexSize == Len(kdtree.val.data)
\* Squared distance from x to the indexed point of identity a
IndexDist2(x, a) == Dist2(x, kdtree.val.data[a + 1])

\* C1: for every loaded point set, centre and radius_km >= 0, fast_spatial_query
\* returns exactly the identities of the indexed points whose distance to the
\* centre is <= the degree radius of the lookup, max(lat_radius, lon_radius):
\* none missing, none extra.  At latitude 0 lon_radius has no finite value and
\* the radius is at least lat_radius, so every point within lat_radius is due.
C1_ExactBall ==
    (op.name = "fast_spatial_query" /\ kdtree # None) =>
        LET Within(r) == {a \in 0..(IndexSize - 1) : WithinRadius(IndexDist2(op.center, a), r)}
        IN  IF op.center[1] # 0
            THEN /\ Range(ret) = Within(SearchRadius(op.center, op.radius_km))
                 /\ Len(ret) = Cardinality(Range(ret))
            ELSE Within(lat_radius(op.radius_km)) \subseteq Range(ret)

\* The graph nodes that carry coordinates, and a subject's squared distances to them
RefNodes == {n \in 1..Len(G) : G[n].has}
RefDists(p) == {Dist2(p, <<G[n].y, G[n].x>>) : n \in RefNodes}

\* The two references (-24.0,-47.0) and (-24.0,-46.0) and the two subjects 0.4
\* and 0.6 degrees east of the first: the spec's scenario 1 scaled into the box
ScenarioOne ==
    /\ G = <<Node(101, -240, -470), Node(102, -240, -460)>>
    /\ points = << <<-240, -466>>, <<-240, -464>> >>

\* C2: every record of the batch assignment names a reference point whose
\* distance to the record's subject is minimal over all reference points, and
\* records that minimum; when the loop is done every subject has a record; in
\* scenario 1 the first subject gets the first reference at distance 0.4
\* degrees (square 16) and the second subject the second reference.
C2_NearestReference ==
    /\ \A n \in 1..Len(assignments) :
          LET rec     == assignments[n].val
              g       == assignments[n].key
          IN  /\ g \in 0..(Len(points) - 1)
              /\ \E m \in RefNodes :
                    /\ G[m].id = rec.nearest_node_id
                    /\ rec.distance = Dist2(points[g + 1], <<G[m].y, G[m].x>>)
                    /\ \A e \in RefDists(points[g + 1]) : rec.distance <= e
    /\ pc = "done" => DictKeys(assignments) = 0..(Len(points) - 1)
    /\ (pc = "done" /\ ScenarioOne) =>
          /\ DictGet(assignments, 0).nearest_node_id = 101
          /\ DictGet(assignments, 0).distance = 16
          /\ DictGet(assignments, 1).nearest_node_id = 102

C2_Witness ==
    /\ pc = "done" /\ ScenarioOne
    /\ Len(assignments) = 2
    /\ DictGet(assignments, 0).nearest_node_id = 101
    /\ DictGet(assignments, 1).nearest_node_id = 102

\* C3: whatever the chunk size, the finished loop gives every subject identity
\* the nearest-reference identity and the distance that one query over all the
\* subjects (create_kdtree_fallback) gives it.
C3_ChunkSizeIndependent ==
    pc = "done" =>
        LET whole == create_kdtree_fallback(node_kdtree.val, node_ids, points)
        IN  \A g \in 0..(Len(points) - 1) :
                /\ g \in DictKeys(assignments)
                /\ DictGet(assignments, g).nearest_node_id = DictGet(whole, g).nearest_node_id
                /\ DictGet(assignments, g).distance = DictGet(whole, g).distance

\* Four subjects in chunks of three: a full chunk and a shorter last one
C3_Witness == pc = "done" /\ Len(crime_points) = 4 /\ batch_size = 3 /\ Len(assignments) = 4

\* C4: when the loop finishes over N subjects the assignments hold exactly one
\* record per subject, keyed 0..N-1, and the record at key g holds subject g's
\* own coordinates and subject g's nearest reference.
C4_OneRecordPerSubject ==
    pc = "done" =>
        /\ Len(assignments) = Len(points)
        /\ DictKeys(assignments) = 0..(Len(points) - 1)
        /\ \A n \in 1..Len(assignments) :
              LET g == assignments[n].key
              IN  /\ assignments[n].val.crime_point = points[g + 1]
                  /\ assignments[n].val.nearest_node_id =
                        node_ids[KthNearest(node_kdtree.val, points[g + 1], 1) + 1]

\* Four different subjects in two chunks of two
C4_Witness ==
    /\ pc = "done" /\ batch_size = 2 /\ Len(points) = 4
    /\ Cardinality(Range(points)) = 4
    /\ Len(assignments) = 4

\* C5: for an index of n points and k >= 1, every neighbour list holds exactly
\* min(k, n) identities, and all n points and nothing else when n < k.
C5_MinKN ==
    (IsNearest /\ op.k >= 1) =>
        \A m \in 1..Len(op.query_points) :
            /\ m \in DOMAIN ret
            /\ Len(ret[m]) = Min(op.k, IndexSize)
            /\ IndexSize < op.k => Range(ret[m]) = 0..(IndexSize - 1)

\* The positions of a neighbour list that hold an indexed identity
RealPositions(l) == {a \in 1..Len(l) : l[a] < IndexSize}

\* The request of the spec's scenario 3, moved into the box: the four corners
\* are indexed and the query point is the centre of the box, k = 4
ScenarioThree ==
    /\ IsNearest
    /\ kdtree.val.data = << <<-240, -470>>, <<-230, -470>>, <<-240, -460>>, <<-230, -460>> >>
    /\ op.query_points = << <<-235, -465>> >>
    /\ op.k = 4

\* C6 as stated: each neighbour list is in ascending order of distance and
\* points at equal distance are in increasing identity order.
C6_TiesByIdentity ==
    (IsNearest /\ op.k >= 1) =>
        \A m \in 1..Len(ret) :
            \A a, b \in RealPositions(ret[m]) :
                a < b =>
                    LET da == IndexDist2(op.query_points[m], ret[m][a])
                        db == IndexDist2(op.query_points[m], ret[m][b])
                    IN  da < db \/ (da = db /\ ret[m][a] < ret[m][b])

\* C6, amended: each neighbour list is in ascending order of distance, with no
\* rule on the order of points at equal distance; in scenario 3 the list holds
\* the four identities once each.
C6_AscendingDistance ==
    (IsNearest /\ op.k >= 1) =>
        /\ \A m \in 1..Len(ret) :
              \A a, b \in RealPositions(ret[m]) :
                  a < b => IndexDist2(op.query_points[m], ret[m][a])
                             <= IndexDist2(op.query_points[m], ret[m][b])
        /\ ScenarioThree => (Len(ret[1]) = 4 /\ Range(ret[1]) = 0..3)

\* Scenario 3 answered in an order that is not the identity order
C6_Witness == ScenarioThree /\ Len(ret) = 1 /\ ret[1] # <<0, 1, 2, 3>> /\ ret[1][1] # 0

\* C7: after loading the points (0,0),(1,0),(0,1),(1,1), the range query
\* centred at (0,0) with the radius of 0.5 degrees returns exactly the identity
\* of (0,0): it neither fails, nor is empty, nor holds another point.
C7_ZeroLatitudeQuery ==
    [][ ( /\ op.name = "bulk_insert_points"
          /\ op.csv = Some(UnitSquare)
          /\ op'.name = "fast_spatial_query"
          /\ op'.center = <<0, 0>>
          /\ op'.radius_km = 5 )
        => (ret' = <<0>> /\ raised' = "None") ]_vars

\* C8 as stated: a nearest-neighbour request with k <= 0 fails with
\* InvalidArgument, surfaced to the caller, in every index state.
C8_InvalidArgument ==
    (op.name = "fast_nearest_points" /\ op.k <= 0) =>
        (raised = "InvalidArgument" /\ escaped)

\* C8, amended: a nearest-neighbour request with k <= 0 returns the empty list
\* in every index state and for every list of query points, and nothing
\* reaches the caller: with an index in place the library's ValueError is
\* caught inside, without one nothing is raised.
C8_EmptyListNoFailure ==
    (op.name = "fast_nearest_points" /\ op.k <= 0) =>
        /\ ret = <<>>
        /\ ~escaped
        /\ raised = IF kdtree = None THEN "None" ELSE "ValueError"

\* k <= 0 asked of a loaded index for a non-empty list of query points
C8_Witness ==
    /\ op.name = "fast_nearest_points" /\ op.k <= 0
    /\ kdtree # None /\ points # <<>> /\ op.query_points # <<>>
    /\ raised = "ValueError"

\* C9: whenever the store holds zero points, both queries return an empty
\* result and raise nothing, and a load whose input has no acceptable record
\* is not a failure.
C9_EmptyStore ==
    points = <<>> =>
        /\ IsQuery => (ret = <<>> /\ raised = "None")
        /\ (op.name = "bulk_insert_points" /\ op.csv.some /\ ~AstypeRaises(dropna(op.csv.val)))
              => ret = TRUE

\* C10: with an empty reference set the batch assignment fails with
\* EmptyReferenceSet before any chunk: no record, and no uncaught crash.
C10_EmptyReferenceSet ==
    (op.name = "cKDTree" /\ node_coords = <<>>) =>
        /\ raised = "EmptyReferenceSet"
        /\ pc # "crashed"
        /\ assignments = <<>>

\* The load kept no record of a table that was read and converted
LoadedNothing ==
    /\ op.name = "bulk_insert_points" /\ op.csv.some
    /\ ~AstypeRaises(dropna(op.csv.val))
    /\ Accepted(op.csv.val) = <<>>

\* C11: with an empty subject set the batch assignment completes without
\* error: the load of a table with no acceptable record does not end the run
\* and raises nothing, and a run that finishes over no subject yields the
\* empty assignment collection.
C11_EmptySubjectSet ==
    /\ LoadedNothing => (pc = "graph" /\ raised = "None" /\ ret = TRUE)
    /\ (pc = "done" /\ crime_points = <<>>) => assignments = <<>>

\* C12: the one radius fast_spatial_query hands to the index is
\* max(lat_radius, lon_radius), so for every centre and radius_km the result
\* holds every indexed point within lat_radius = radius_km / 111.32 degrees of
\* the centre.
C12_OverSelect ==
    (op.name = "fast_spatial_query" /\ kdtree # None) =>
        /\ BallSet(kdtree.val, op.center, lat_radius(op.radius_km)) \subseteq Range(ret)
        /\ raised = "None" =>
              ret = query_ball_point(kdtree.val, op.center,
                                     Max(lat_radius(op.radius_km),
                                         lon_radius(op.center[1], op.radius_km)))

\* cos(latitude), in thousandths, at the latitudes of Centers (tenths of a degree)
CosMilli(lat) ==
    CASE Abs(lat) = 0   -> 1000
      [] Abs(lat) = 235 -> 917
      [] Abs(lat) = 240 -> 914
      [] Abs(lat) = 600 -> 500

\* radius_km / (111.32 * cos(latitude of the centre))
CosLonRadius(lat_center, radius_km) ==
    [num |-> radius_km * 1000, den |-> CosMilli(lat_center)]

\* C13: for every query centre the latitude radius is radius_km / 111.32 and
\* the longitude radius is radius_km / (111.32 * cos(latitude of the centre)):
\* the query raises nothing and returns the points within the larger of the two.
C13_CosineLongitudeRadius ==
    (op.name = "fast_spatial_query" /\ kdtree # None) =>
        /\ raised = "None"
        /\ Range(ret) = BallSet(kdtree.val, op.center,
                                Max(lat_radius(op.radius_km),
                                    CosLonRadius(op.center[1], op.radius_km)))

\* A record with both coordinates present and inside the box
\* -24.0..-23.0 x -47.0..-46.0, bounds included
Acceptable(row) ==
    /\ row.LATITUDE.k \in {"float", "comma"} /\ row.LONGITUDE.k \in {"float", "comma"}
    /\ row.LATITUDE.v >= -240 /\ row.LATITUDE.v <= -230
    /\ row.LONGITUDE.v >= -470 /\ row.LONGITUDE.v <= -460

\* The coordinates of the acceptable records of a table, in input order
AcceptableCoords(df) ==
    LET kept == SelectSeq(df, Acceptable)
    IN  [n \in 1..Len(kept) |-> <<kept[n].LATITUDE.v, kept[n].LONGITUDE.v>>]

\* C14: after any sequence of loads every stored point lies in the box
\* -24.0..-23.0 x -47.0..-46.0, bounds included; a record outside the box or
\* with a missing coordinate is never stored, and rejecting it does not stop
\* the load: every acceptable record of the table is stored.
C14_BoxInvariant ==
    /\ \A n \in 1..Len(points) :
          /\ points[n][1] >= -240 /\ points[n][1] <= -230
          /\ points[n][2] >= -470 /\ points[n][2] <= -460
    /\ (op.name = "bulk_insert_points" /\ op.csv.some /\ ~AstypeRaises(dropna(op.csv.val))) =>
          Range(points) = Range(AcceptableCoords(op.csv.val))

\* A table whose first and last records are kept and whose two middle records
\* (one just outside the box, one without longitude) are rejected
C14_Witness ==
    /\ op.name = "bulk_insert_points" /\ op.csv = Some(Mixed)
    /\ points = << <<-235, -465>>, <<-230, -460>> >>

\* C15: a successful load replaces the store: points is exactly the accepted
\* records of that input in input order, so identity i is the i-th accepted
\* record, the identities of the index are 0..size-1 over these very points,
\* and nothing of an earlier load remains.
C15_LoadReplaces ==
    (op.name = "bulk_insert_points" /\ ret = TRUE) =>
        /\ points = AcceptableCoords(op.csv.val)
        /\ points_array = Some(points)
        /\ kdtree # None
        /\ kdtree.val.data = points
        /\ Range(kdtree.val.indices) = 0..(Len(points) - 1)

\* A successful load of two records
C15_Witness ==
    /\ op.name = "bulk_insert_points" /\ ret = TRUE /\ op.csv = Some(TwoPoints)
    /\ points = << <<-240, -466>>, <<-240, -464>> >>
    /\ kdtree.val.data = points

\* C16: a call of fast_spatial_query or fast_nearest_points, whether it returns
\* a result or catches an error, leaves points, points_array and kdtree as
\* they were.
C16_QueriesReadOnly ==
    [][ op'.name \in {"fast_spatial_query", "fast_nearest_points"}
        => (points' = points /\ points_array' = points_array /\ kdtree' = kdtree) ]_vars

\* A range query that hit the division by zero over a loaded index
C16_Witness ==
    /\ op.name = "fast_spatial_query" /\ raised = "ZeroDivisionError"
    /\ kdtree # None /\ points # <<>>

\* What a request returns when it is the only call running, on the index as
\* it stands
Alone(req) ==
    IF kdtree = None THEN <<>>
    ELSE IF req.name = "fast_spatial_query"
    THEN IF req.center[1] = 0 THEN <<>>
         ELSE query_ball_point(kdtree.val, req.center, SearchRadius(req.center, req.radius_km))
    ELSE IF QueryRaises(req.query_points, req.k) THEN <<>>
         ELSE NeighbourLists(kdtree.val, req.query_points, req.k)

\* C17: in every interleaving of query calls from several threads on one
\* loaded instance, a call that has finished is about to return what the same
\* request returns when run alone; and a step of one call changes neither
\* points, points_array, kdtree nor anything of another thread's call.
C17_ThreadsIsolated ==
    /\ [](\A t \in Threads :
            tpc[t] = "done" =>
                (frame[Local(t)].req = treq[t] /\ frame[Local(t)].result = Alone(treq[t])))
    /\ [][ /\ tpc' # tpc => (points' = points /\ points_array' = points_array /\ kdtree' = kdtree)
           /\ \A u \in Threads :
                 tpc'[u] = tpc[u] => (frame'[u] = frame[u] /\ treq'[u] = treq[u]) ]_vars

\* One thread has its result in hand while another one, with a different
\* request, is between its two reads of the index
C17_Witness ==
    /\ kdtree # None
    /\ tpc[1] = "done" /\ frame[1].result # <<>>
    /\ tpc[2] = "ready" /\ treq[2] # treq[1]

\* The last call, as a request
LastRequest ==
    IF op.name = "fast_spatial_query"
    THEN SpatialRequest(op.center, op.radius_km)
    ELSE NearestRequest(op.query_points, op.k)

StrictlyNearer(x, e) == {b \in 0..(IndexSize - 1) : IndexDist2(x, b) < IndexDist2(x, e)}
AtMostAsFar(x, e)    == {b \in 0..(IndexSize - 1) : IndexDist2(x, b) <= IndexDist2(x, e)}

\* C19: for m query points and k >= 1 on a loaded index, fast_nearest_points
\* returns exactly m lists, and the i-th list holds the neighbours of the i-th
\* query point: its a-th entry is an indexed point at the a-th smallest
\* distance from that query point, no point twice; for k = 1 each list is one
\* identity, a nearest indexed point of its query point.
C19_OneListPerQueryPoint ==
    (IsNearest /\ op.k >= 1) =>
        /\ Len(ret) = Len(op.query_points)
        /\ \A m \in 1..Len(ret) :
              LET x == op.query_points[m]
                  real == 1..Min(op.k, IndexSize)
              IN  /\ real \subseteq DOMAIN ret[m]
                  /\ \A a \in real :
                        /\ ret[m][a] \in 0..(IndexSize - 1)
                        /\ Cardinality(StrictlyNearer(x, ret[m][a])) <= a - 1
                        /\ Cardinality(AtMostAsFar(x, ret[m][a])) >= a
                  /\ \A a, b \in real : ret[m][a] = ret[m][b] => a = b
                  /\ op.k = 1 =>
                        /\ Len(ret[m]) = 1
                        /\ StrictlyNearer(x, ret[m][1]) = {}

\* Two query points asked at once with k = 1 over the four corners, and two
\* different answers: the corner itself for the second, another point for the first
C19_Witness ==
    /\ IsNearest /\ op.k = 1 /\ IndexSize = 4
    /\ op.query_points = << <<-235, -465>>, <<-240, -470>> >>
    /\ Len(ret) = 2 /\ ret[2] = <<0>> /\ ret[1] # <<0>>

\* C20: for every number of subjects and every chunk size, the assignment
\* collection lists its records in ascending subject identity: the n-th record
\* in the dict's order is the one of subject n - 1.
C20_AscendingIdentityOrder ==
    \A n \in 1..Len(assignments) : assignments[n].key = n - 1

\* Four subjects done one by one
C20_Witness ==
    /\ pc = "done" /\ batch_size = 1
    /\ Len(crime_points) = 4 /\ Len(assignments) = 4
    /\ assignments[4].key = 3

\* The record of subject g, complete: its point, the id of the reference
\* nearest to it and the distance to that reference
CompleteRecord(g) ==
    [crime_point     |-> crime_points[g + 1],
     nearest_node_id |-> node_ids[QueryRow(node_kdtree.val, crime_points[g + 1], 1)[1] + 1],
     distance        |-> QueryDist(node_kdtree.val, crime_points[g + 1])]

\* The loop is between two chunks, or past the last one
AtChunkBoundary == pc \in {"loop", "done"}

\* C21: at every chunk boundary the assignment collection holds exactly the
\* complete records of the subjects 0..batch_end-1 of the chunks done so far,
\* in ascending order, and no step of the loop changes or removes a record
\* that is already there: what a job stopped between two chunks leaves is a
\* prefix of what the whole job leaves.
C21_PartialResultValid ==
    /\ [](AtChunkBoundary =>
            /\ Len(assignments) = Min(i, Len(crime_points))
            /\ \A n \in 1..Len(assignments) :
                  /\ assignments[n].key = n - 1
                  /\ assignments[n].val = CompleteRecord(n - 1))
    /\ [][AtChunkBoundary =>
            /\ Len(assignments') >= Len(assignments)
            /\ \A n \in 1..Len(assignments) : assignments'[n] = assignments[n]]_vars

\* Four subjects in chunks of three, stopped after the first chunk: three
\* records, one subject still to do
C21_Witness ==
    /\ pc = "loop" /\ op.name = "chunk"
    /\ batch_size = 3 /\ i = 3 /\ Len(crime_points) = 4
    /\ Len(assignments) = 3

\* What the sequential loop leaves from chunk start `start` on
RECURSIVE SequentialLoop(_, _)
SequentialLoop(d, start) ==
    IF start >= Len(crime_points) THEN d
    ELSE SequentialLoop(
             StoreChunk(d, node_kdtree.val, node_ids,
                        Slice(crime_points, start,
                              BatchEnd(start, batch_size, Len(crime_points))),
                        start, 0),
             start + batch_size)

\* A dict of records as a mapping: identity, nearest reference, distance
Mapping(d) ==
    {<<d[n].key, d[n].val.nearest_node_id, d[n].val.distance>> : n \in 1..Len(d)}

\* The keys of the chunk a busy worker holds
OwnKeys(w) == work[w].i .. (BatchEnd(work[w].i, batch_size, Len(crime_points)) - 1)

\* C22: with the chunks taken in any order by several workers and their
\* records stored interleaved, the finished job holds one record per subject
\* and the same mapping from identity to (nearest reference, distance) as the
\* sequential loop; a worker's step writes only a key of its own chunk,
\* leaves every other record as it is and does not touch the reference index.
C22_ChunksIndependent ==
    /\ [](pc = "done" =>
            /\ Len(assignments) = Len(crime_points)
            /\ Mapping(assignments) = Mapping(SequentialLoop(<<>>, 0)))
    /\ [][\A w \in Workers :
            (work[w].busy /\ work'[w] # work[w]) =>
                /\ DictKeys(assignments') \ DictKeys(assignments) \subseteq OwnKeys(w)
                /\ \A n \in 1..Len(assignments) :
                      assignments[n].key \notin OwnKeys(w) => assignments'[n] = assignments[n]
                /\ node_kdtree' = node_kdtree /\ node_ids' = node_ids]_vars

\* Four subjects in two chunks of two, finished with the records stored
\* interleaved: subject 2 first, then 0, then 3, then 1
C22_Witness ==
    /\ pc = "done" /\ batch_size = 2 /\ Len(assignments) = 4
    /\ assignments[1].key = 2 /\ assignments[2].key = 0
    /\ assignments[3].key = 3 /\ assignments[4].key = 1

\* A record with a coordinate that is not finite: missing (NaN) or infinite
NonFiniteRow(row) ==
    row.LATITUDE.k \in {"nan", "inf"} \/ row.LONGITUDE.k \in {"nan", "inf"}

NonFiniteRows(df) == SelectSeq(df, NonFiniteRow)

\* The job ran to its end over a table that has records with a coordinate
\* that is not finite
FinishedOverNonFinite ==
    /\ pc = "done" /\ crime_csv.some
    /\ NonFiniteRows(crime_csv.val) # <<>>

\* Every subject has its record, and the record is the right one
EverySubjectAssigned ==
    /\ Len(assignments) = Len(crime_points)
    /\ \A n \in 1..Len(assignments) :
          /\ assignments[n].key = n - 1
          /\ assignments[n].val = CompleteRecord(n - 1)

\* C23 as stated: the records with a coordinate that is not finite are
\* skipped and counted as rejected, and every other subject has its correct
\* record.
C23_SkippedAndCounted ==
    FinishedOverNonFinite =>
        /\ crime_points = AcceptableCoords(crime_csv.val)
        /\ EverySubjectAssigned
        /\ \E msg \in out : msg.what = "rejected" /\ msg.n = Len(NonFiniteRows(crime_csv.val))

\* C23, amended: a record with a coordinate that is not finite is dropped by
\* the load and is no subject; nothing counts it as rejected (the run reports
\* the number of records read and, when the load succeeds, the number of
\* points kept, nothing else); the subjects of the loop are the acceptable
\* records, and when the loop has ended each has its correct record.
C23_DroppedAtLoadUncounted ==
    (crime_csv.some /\ NonFiniteRows(crime_csv.val) # <<>>) =>
        /\ out \subseteq {Registros(Len(crime_csv.val)), Insertados(Len(points))}
        /\ pc \in {"loop", "done"} => crime_points = AcceptableCoords(crime_csv.val)
        /\ pc = "done" => EverySubjectAssigned

\* The run over the table with a missing latitude and an infinite longitude
\* between two good records, finished with the two good ones assigned
C23_Witness ==
    /\ pc = "done" /\ crime_csv = Some(NonFinite)
    /\ Len(assignments) = 2
    /\ assignments[2].val.crime_point = <<-230, -460>>

IsLoad == op.name = "bulk_insert_points"

\* C24 as stated: every load of a table reports, besides its success or
\* failure, an accepted count equal to the store size after the load and a
\* rejected count equal to the number of input records not stored.
C24_AcceptedAndRejectedCounts ==
    (IsLoad /\ op.csv.some) =>
        /\ ret \in BOOLEAN
        /\ \E msg \in out : msg.what = "puntos insertados" /\ msg.n = Len(points)
        /\ \E msg \in out : msg.what = "rejected" /\ msg.n = Len(op.csv.val) - Len(points)

\* C24, amended: the load returns success or failure and nothing else.  A
\* load that succeeds prints the accepted count, which is the store size
\* after the load, and logs the number of records read; a load that fails
\* prints no accepted count; no load reports a rejected count.
C24_AcceptedCountOnSuccess ==
    IsLoad =>
        /\ ret \in BOOLEAN
        /\ ret = TRUE  => out = {[what |-> "registros", n |-> Len(op.csv.val)],
                                 [what |-> "puntos insertados", n |-> Len(points)]}
        /\ ret = FALSE => out \subseteq {[what |-> "registros", n |-> Len(op.csv.val)]}

\* A table of four records of which two are kept: 4 read, 2 inserted
C24_Witness ==
    /\ IsLoad /\ op.csv = Some(Mixed) /\ ret = TRUE
    /\ Len(points) = 2
    /\ out = {[what |-> "registros", n |-> 4], [what |-> "puntos insertados", n |-> 2]}

\* C25: in every state reached by loads, successful or failing, and queries,
\* an index that exists indexes exactly the current points: the same
\* coordinates at the same identities.
C25_IndexIsOfCurrentPoints ==
    kdtree # None =>
        /\ IndexSize = Len(points)
        /\ \A a \in 1..Len(points) : kdtree.val.data[a] = points[a]

\* C26: a load that returns False leaves points, points_array and kdtree as
\* they were before the call.
C26_FailedLoadChangesNothing ==
    [][(op'.name = "bulk_insert_points" /\ ret' = FALSE)
          => (points' = points /\ points_array' = points_array /\ kdtree' = kdtree)]_vars

\* The identities that are valid indexes into the current points
ValidIdentities == 0..(Len(points) - 1)

\* C27: every identity either query returns, for any radius, any k >= 1 and
\* any store size, is a valid index into the current points.
C27_IdentitiesValid ==
    /\ op.name = "fast_spatial_query" => Range(ret) \subseteq ValidIdentities
    /\ (IsNearest /\ op.k >= 1) =>
          \A m \in 1..Len(ret) : Range(ret[m]) \subseteq ValidIdentities

\* ceil(n / b)
CeilDiv(n, b) == (n + b - 1) \div b

\* C28: for every subject count N and chunk size B >= 1 the loop ends, after
\* ceil(N/B) chunks; chunk number c is the range [cB, min(cB + B, N)) and
\* stores exactly the records of that range, none of which was there before;
\* at the end the ranges have covered 0..N-1, every subject once.
C28_LoopTerminatesCoveringAll ==
    /\ (pc = "loop") ~> (pc = "done")
    /\ [](pc = "done" => /\ i = batch_size * CeilDiv(Len(crime_points), batch_size)
                         /\ DictKeys(assignments) = 0..(Len(crime_points) - 1)
                         /\ Len(assignments) = Len(crime_points))
    /\ [][(pc = "loop" /\ i' # i) =>
            /\ i' = i + batch_size
            /\ op'.i = i /\ op'.batch_end = Min(i + batch_size, Len(crime_points))
            /\ DictKeys(assignments) = 0..(i - 1)
            /\ DictKeys(assignments') = 0..(op'.batch_end - 1)
            /\ Len(assignments') = Len(assignments) + (op'.batch_end - i)]_vars

\* Four subjects in chunks of three: ended after ceil(4/3) = 2 chunks, with
\* the four records
C28_Witness ==
    /\ pc = "done" /\ Len(crime_points) = 4 /\ batch_size = 3
    /\ i = 6 /\ op.name = "end"
    /\ DictKeys(assignments) = 0..3

\* C29: on a loaded store and for a fixed centre the range query is monotone
\* in the radius: a query with r1 followed by one with r2 >= r1 at the same
\* centre returns every identity the first returned.
C29_MonotoneInRadius ==
    [][( /\ kdtree # None
         /\ op.name = "fast_spatial_query" /\ op'.name = "fast_spatial_query"
         /\ op'.center = op.center
         /\ 0 <= op.radius_km /\ op.radius_km <= op'.radius_km )
        => Range(ret) \subseteq Range(ret')]_vars

\* The four corners of the box asked from its centre, first with a radius
\* that reaches none and then with one that reaches all four
C29_Witness ==
    /\ op.name = "fast_spatial_query" /\ op.widened
    /\ op.center = <<-235, -465>> /\ op.radius_km = 5
    /\ Len(points) = 4 /\ IndexSize = 4
    /\ Range(ret) = 0..3

\* C30: the two copies of the ingestion filter agree: when the handler of a
\* successful load processes the table the load read, what
\* CrimeDataProcessor.process returns is exactly the sequence the load
\* stored, record by record and in the same order.
C30_FiltersAgree ==
    [][(IsLoad /\ ret = TRUE /\ op'.name = "process_data")
          => (csv_data = op.csv /\ ret' = points /\ coordinates' = points)]_vars

\* The table of four records, two of them written with decimal commas and
\* kept, one outside the box and one with a missing longitude: processed
\* after its load, with the same two points on both sides
C30_Witness ==
    /\ op.name = "process_data" /\ csv_data = Some(Mixed)
    /\ kdtree # None /\ kdtree.val.data = points
    /\ coordinates = points
    /\ points = << <<-235, -465>>, <<-230, -460>> >>

====
